---- MODULE Spec2Model ----
(***************************************************************************)
(* The "Hello World" web server of ngauthier/oo-web-go-post in its three   *)
(* variants:                                                               *)
(*   functional  src/functional/web.go    package-level http and log       *)
(*   globals     src/unnamed/part_000     own logger global and ServeMux   *)
(*   oo          src/post.md 113-148      app struct holding mux and log   *)
(* One behaviour runs one variant: main's startup statements, the          *)
(* ListenAndServe call, and the per-request goroutines of net/http that    *)
(* route through the ServeMux and run the handler.                         *)
(***************************************************************************)
EXTENDS Integers, Sequences, FiniteSets, TLC

\* Number of requests the listener accepts in one behaviour.
MaxRequests == 2

Variants == {"functional", "globals", "oo"}

\* A URL path is the sequence of its segments: "/" + segments joined by "/".
Root == <<"">>                    \* "/"
Foo == <<"foo">>                  \* "/foo"
Paths ==
  { Root, Foo, <<"bar">>,         \* "/", "/foo", "/bar"
    <<"foo", "">>,                \* "/foo/"
    <<"", "foo">> }               \* "//foo"

Methods == {"GET", "POST", "CONNECT"}

VARIABLES
  variant,   \* which program this process runs
  pc,        \* main's position
  logger,    \* the *log.Logger the handler logs through ("nil" when unset)
  sinks,     \* the log.Logger instances the program has available
  routes,    \* the ServeMux table: set of [pattern, handler]
  state,     \* "Unbound" or "Serving"
  err,       \* the error ListenAndServe returned ("none" while it has not)
  exit,      \* "running", or the exit status: "ok" (0), "fatal" (1)
  reqs,      \* the accepted requests, one goroutine each
  mu,        \* holder of the logger's mutex (0: free)
  log        \* the lines written through the loggers, in write order

vars == <<variant, pc, logger, sinks, routes, state, err, exit, reqs, mu, log>>

----------------------------------------------------------------------------
\* The registrations and messages of the three programs.

FunctionalPattern == Root
FunctionalMsg == "Request to /"
GlobalsPattern == Foo
GlobalsMsg == "request to foo"
OOPattern == Foo
OOMsg == "request to foo"

\* log.New(os.Stdout, "web ", log.LstdFlags); the package-level logger of "log"
\* writes to standard error with no prefix.
SinkPrefix(s) == IF s = "web" THEN "web " ELSE ""
SinkOut(s) == IF s = "web" THEN "stdout" ELSE "stderr"

Line(s, msg, i) == [sink |-> s, prefix |-> SinkPrefix(s), out |-> SinkOut(s),
                    msg |-> msg, req |-> i]

----------------------------------------------------------------------------
\* net/http ServeMux: path cleaning and pattern matching.

RECURSIVE CleanSegs(_, _)
\* path.Clean on a rooted path: drops empty and "." segments, ".." pops.
CleanSegs(p, acc) ==
  IF p = <<>> THEN acc
  ELSE LET s == Head(p) IN
       IF s = "" \/ s = "." THEN CleanSegs(Tail(p), acc)
       ELSE IF s = ".."
         THEN CleanSegs(Tail(p),
                        IF acc = <<>> THEN acc ELSE SubSeq(acc, 1, Len(acc) - 1))
         ELSE CleanSegs(Tail(p), Append(acc, s))

\* cleanPath: path.Clean, with the trailing slash put back.
cleanPath(p) ==
  LET np == CleanSegs(p, <<>>) IN
  IF np = <<>> THEN Root
  ELSE IF p[Len(p)] = "" THEN Append(np, "") ELSE np

\* pathMatch: a pattern ending in "/" matches the subtree, any other pattern
\* matches that path alone.
pathMatch(pattern, path) ==
  IF pattern[Len(pattern)] # ""
  THEN pattern = path
  ELSE /\ Len(path) >= Len(pattern)
       /\ SubSeq(path, 1, Len(pattern) - 1) = SubSeq(pattern, 1, Len(pattern) - 1)

\* Mutant of MuxHandler: the route answers GET alone.
MuxHandlerGetOnly(rt, path, method) ==
  IF method # "CONNECT" /\ cleanPath(path) # path THEN "redirect"
  ELSE LET m == {r \in rt : pathMatch(r.pattern, path) /\ method = "GET"} IN
       IF m = {} THEN "notfound"
       ELSE (CHOOSE r \in m : \A q \in m : Len(q.pattern) <= Len(r.pattern)).handler

\* ServeMux.Handler: a request other than CONNECT whose path is not clean is
\* redirected; otherwise the longest matching pattern wins, NotFound if none.
MuxHandler(rt, path, method) ==
  IF method # "CONNECT" /\ cleanPath(path) # path THEN "redirect"
  ELSE LET m == {r \in rt : pathMatch(r.pattern, path)} IN
       IF m = {} THEN "notfound"
       ELSE (CHOOSE r \in m : \A q \in m : Len(q.pattern) <= Len(r.pattern)).handler

AppHandlers == {"func", "foo", "app.foo"}

----------------------------------------------------------------------------
Init ==
  /\ variant \in Variants
  /\ pc = "start"
  /\ logger = IF variant = "functional" THEN "std" ELSE "nil"
  /\ sinks = IF variant = "functional" THEN {"std"} ELSE {}
  /\ routes = {}
  /\ state = "Unbound"
  /\ err = "none"
  /\ exit = "running"
  /\ reqs = <<>>
  /\ mu = 0
  /\ log = <<>>

----------------------------------------------------------------------------
\* Startup: main up to the ListenAndServe call.

\* functional: http.HandleFunc("/", func...) on the DefaultServeMux.
FunctionalHandleFunc ==
  /\ variant = "functional" /\ pc = "start" /\ exit = "running"
  /\ routes' = routes \cup {[pattern |-> FunctionalPattern, handler |-> "func"]}
  /\ pc' = "listen"
  /\ UNCHANGED <<variant, logger, sinks, state, err, exit, reqs, mu, log>>

\* Mutant of GlobalsNewLogger: main goes on without assigning the logger.
GlobalsSkipLogger ==
  /\ variant = "globals" /\ pc = "start" /\ exit = "running"
  /\ pc' = "routes"
  /\ UNCHANGED <<variant, logger, sinks, routes, state, err, exit, reqs, mu, log>>

\* globals: logger = log.New(os.Stdout, "web ", log.LstdFlags)
GlobalsNewLogger ==
  /\ variant = "globals" /\ pc = "start" /\ exit = "running"
  /\ logger' = "web"
  /\ sinks' = sinks \cup {"web"}
  /\ pc' = "routes"
  /\ UNCHANGED <<variant, routes, state, err, exit, reqs, mu, log>>

\* globals: routes() builds the ServeMux handed to http.Server.Handler.
GlobalsRoutes ==
  /\ variant = "globals" /\ pc = "routes" /\ exit = "running"
  /\ routes' = routes \cup {[pattern |-> GlobalsPattern, handler |-> "foo"]}
  /\ pc' = "listen"
  /\ UNCHANGED <<variant, logger, sinks, state, err, exit, reqs, mu, log>>

\* oo: New() creates the mux and the logger and wraps them in an app.
OONewApp ==
  /\ variant = "oo" /\ pc = "start" /\ exit = "running"
  /\ logger' = "web"
  /\ sinks' = sinks \cup {"web"}
  /\ pc' = "routes"
  /\ UNCHANGED <<variant, routes, state, err, exit, reqs, mu, log>>

\* oo: mux.HandleFunc("/foo", app.foo); return app
OOHandleFunc ==
  /\ variant = "oo" /\ pc = "routes" /\ exit = "running"
  /\ routes' = routes \cup {[pattern |-> OOPattern, handler |-> "app.foo"]}
  /\ pc' = "listen"
  /\ UNCHANGED <<variant, logger, sinks, state, err, exit, reqs, mu, log>>

----------------------------------------------------------------------------
\* ListenAndServe: bind, then accept until the listener fails.

ListenOK ==
  /\ pc = "listen" /\ exit = "running"
  /\ state' = "Serving"
  /\ pc' = "serving"
  /\ UNCHANGED <<variant, logger, sinks, routes, err, exit, reqs, mu, log>>

\* The address cannot be bound: ListenAndServe returns the error at once.
ListenFail ==
  /\ pc = "listen" /\ exit = "running"
  /\ err' = "bind"
  /\ pc' = "returned"
  /\ UNCHANGED <<variant, logger, sinks, routes, state, exit, reqs, mu, log>>

\* Mutant of AcceptFail: the server drops the listener and binds again.
AcceptFailRebind ==
  /\ pc = "serving" /\ exit = "running"
  /\ state' = "Unbound"
  /\ pc' = "listen"
  /\ UNCHANGED <<variant, logger, sinks, routes, err, exit, reqs, mu, log>>

\* Accept fails with a permanent error: Serve returns it.
AcceptFail ==
  /\ pc = "serving" /\ exit = "running"
  /\ err' = "accept"
  /\ pc' = "returned"
  /\ UNCHANGED <<variant, logger, sinks, routes, state, exit, reqs, mu, log>>

\* functional: log.Fatal(err) prints through the package logger (taking its
\* mutex for the write) and exits 1.
FunctionalFatal ==
  /\ variant = "functional" /\ pc = "returned" /\ exit = "running"
  /\ mu = 0
  /\ log' = Append(log, Line("std", "listen error", 0))
  /\ exit' = "fatal"
  /\ pc' = "exited"
  /\ UNCHANGED <<variant, logger, sinks, routes, state, err, reqs, mu>>

\* globals: server.ListenAndServe() is the last statement of main and its
\* result is dropped: main returns, the process exits 0.
GlobalsReturn ==
  /\ variant = "globals" /\ pc = "returned" /\ exit = "running"
  /\ exit' = "ok"
  /\ pc' = "exited"
  /\ UNCHANGED <<variant, logger, sinks, routes, state, err, reqs, mu, log>>

\* oo: http.ListenAndServe(":8080", New()), result dropped likewise.
OOReturn ==
  /\ variant = "oo" /\ pc = "returned" /\ exit = "running"
  /\ exit' = "ok"
  /\ pc' = "exited"
  /\ UNCHANGED <<variant, logger, sinks, routes, state, err, reqs, mu, log>>

----------------------------------------------------------------------------
\* Requests: one goroutine per accepted connection.

Request(p, m) == [path |-> p, method |-> m, pc |-> "read", handler |-> "none",
                  status |-> 0, body |-> "none"]

Accept(p, m) ==
  /\ pc = "serving" /\ exit = "running"
  /\ Len(reqs) < MaxRequests
  /\ reqs' = Append(reqs, Request(p, m))
  /\ UNCHANGED <<variant, pc, logger, sinks, routes, state, err, exit, mu, log>>

\* ServeMux.ServeHTTP: pick the handler for the request.
MuxServeHTTP(i) ==
  /\ exit = "running"
  /\ reqs[i].pc = "read"
  /\ reqs' = [reqs EXCEPT ![i].handler = MuxHandler(routes, reqs[i].path, reqs[i].method),
                          ![i].pc = "routed"]
  /\ UNCHANGED <<variant, pc, logger, sinks, routes, state, err, exit, mu, log>>

\* oo: app.ServeHTTP delegates to the mux.
AppServeHTTP(i) == MuxServeHTTP(i)

Dispatch(i) ==
  IF variant = "oo" THEN AppServeHTTP(i) ELSE MuxServeHTTP(i)

\* http.NotFound: 404 and its fixed body.
NotFound(i) ==
  /\ exit = "running"
  /\ reqs[i].pc = "routed" /\ reqs[i].handler = "notfound"
  /\ reqs' = [reqs EXCEPT ![i].status = 404, ![i].body = "404 page not found",
                          ![i].pc = "done"]
  /\ UNCHANGED <<variant, pc, logger, sinks, routes, state, err, exit, mu, log>>

\* RedirectHandler(cleaned path, 301).
Redirect(i) ==
  /\ exit = "running"
  /\ reqs[i].pc = "routed" /\ reqs[i].handler = "redirect"
  /\ reqs' = [reqs EXCEPT ![i].status = 301, ![i].body = "redirect",
                          ![i].pc = "done"]
  /\ UNCHANGED <<variant, pc, logger, sinks, routes, state, err, exit, mu, log>>

\* (*Logger).Println, entry: a nil receiver panics (net/http recovers and
\* drops the connection); otherwise take the logger's mutex.
PrintlnLock(i, lg) ==
  /\ reqs[i].pc = "routed"
  /\ IF lg = "nil"
     THEN /\ reqs' = [reqs EXCEPT ![i].pc = "panicked"]
          /\ UNCHANGED mu
     ELSE /\ mu = 0
          /\ mu' = i
          /\ reqs' = [reqs EXCEPT ![i].pc = "locked"]
  /\ UNCHANGED log

\* Mutant of PrintlnWrite: the write replaces the output instead of
\* appending to it.
PrintlnWriteTruncate(i, lg, msg) ==
  /\ reqs[i].pc = "locked" /\ mu = i
  /\ log' = <<Line(lg, msg, i)>>
  /\ mu' = 0
  /\ reqs' = [reqs EXCEPT ![i].pc = "logged"]

\* (*Logger).Println, under the mutex: write the line, unlock.
PrintlnWrite(i, lg, msg) ==
  /\ reqs[i].pc = "locked" /\ mu = i
  /\ log' = Append(log, Line(lg, msg, i))
  /\ mu' = 0
  /\ reqs' = [reqs EXCEPT ![i].pc = "logged"]

Println(i, lg, msg) == PrintlnLock(i, lg) \/ PrintlnWrite(i, lg, msg)

\* Mutant of foo: every call logs through a logger of its own.
fooOwnLogger(i) ==
  /\ exit = "running"
  /\ reqs[i].handler = "foo"
  /\ sinks' = sinks \cup {"perrequest"}
  /\ Println(i, "perrequest", GlobalsMsg)
  /\ UNCHANGED <<variant, pc, logger, routes, state, err, exit>>

\* functional: the inline handler, log.Println("Request to /").
FunctionalHandler(i) ==
  /\ exit = "running"
  /\ reqs[i].handler = "func"
  /\ Println(i, "std", FunctionalMsg)
  /\ UNCHANGED <<variant, pc, logger, sinks, routes, state, err, exit>>

\* globals: foo, logger.Println("request to foo").
foo(i) ==
  /\ exit = "running"
  /\ reqs[i].handler = "foo"
  /\ Println(i, logger, GlobalsMsg)
  /\ UNCHANGED <<variant, pc, logger, sinks, routes, state, err, exit>>

\* Mutant of appFoo: the handler registers another route on the app's mux.
appFooRegisters(i) ==
  /\ exit = "running"
  /\ reqs[i].handler = "app.foo"
  /\ Println(i, logger, OOMsg)
  /\ routes' = routes \cup {[pattern |-> <<"bar">>, handler |-> "app.foo"]}
  /\ UNCHANGED <<variant, pc, logger, sinks, state, err, exit>>

\* oo: (*app).foo, a.log.Println("request to foo").
appFoo(i) ==
  /\ exit = "running"
  /\ reqs[i].handler = "app.foo"
  /\ Println(i, logger, OOMsg)
  /\ UNCHANGED <<variant, pc, logger, sinks, routes, state, err, exit>>

\* The handler returned without writing: the server sends 200, empty body.
FinishRequest(i) ==
  /\ exit = "running"
  /\ reqs[i].pc = "logged"
  /\ reqs' = [reqs EXCEPT ![i].status = 200, ![i].body = "", ![i].pc = "done"]
  /\ UNCHANGED <<variant, pc, logger, sinks, routes, state, err, exit, mu, log>>

----------------------------------------------------------------------------
Next ==
  \/ FunctionalHandleFunc
  \/ GlobalsNewLogger
  \/ GlobalsRoutes
  \/ OONewApp
  \/ OOHandleFunc
  \/ ListenOK
  \/ ListenFail
  \/ AcceptFail
  \/ FunctionalFatal
  \/ GlobalsReturn
  \/ OOReturn
  \/ \E p \in Paths, m \in Methods : Accept(p, m)
  \/ \E i \in DOMAIN reqs : Dispatch(i)
  \/ \E i \in DOMAIN reqs : NotFound(i)
  \/ \E i \in DOMAIN reqs : Redirect(i)
  \/ \E i \in DOMAIN reqs : FunctionalHandler(i)
  \/ \E i \in DOMAIN reqs : foo(i)
  \/ \E i \in DOMAIN reqs : appFoo(i)
  \/ \E i \in DOMAIN reqs : FinishRequest(i)

Spec == Init /\ [][Next]_vars

----------------------------------------------------------------------------
\* Vocabulary of the properties.

RegisteredPaths == {r.pattern : r \in routes}

HandlerLines == SelectSeq(log, LAMBDA l : l.req # 0)

LinesOf(i) == Cardinality({k \in DOMAIN log : log[k].req = i})

Ran(i) == reqs[i].pc \in {"logged", "done"}

----------------------------------------------------------------------------
\* C1: every request to the registered path that has been served produced
\* exactly one log line, and that line carries the text "request to foo".
OneFooLinePerRequest ==
  \A i \in DOMAIN reqs :
    (reqs[i].path \in RegisteredPaths /\ reqs[i].pc = "done") =>
      /\ LinesOf(i) = 1
      /\ \A k \in DOMAIN log : log[k].req = i => log[k].msg = "request to foo"

\* C2: a request whose path is not the registered path never reaches the
\* handler, writes no log line, and is answered 404 not found.
ExactPathOnly ==
  \A i \in DOMAIN reqs :
    (reqs[i].path \notin RegisteredPaths) =>
      /\ reqs[i].handler \notin AppHandlers
      /\ LinesOf(i) = 0
      /\ reqs[i].pc = "done" => reqs[i].status = 404

\* C3: when all N accepted requests go to the registered path, each handler
\* that has run left exactly one line and no other handler line exists, so
\* with all N served the log holds exactly N handler lines, in any order.
NoLostOrDuplicatedLines ==
  (\A i \in DOMAIN reqs : reqs[i].path \in RegisteredPaths) =>
    /\ \A i \in DOMAIN reqs : LinesOf(i) = IF Ran(i) THEN 1 ELSE 0
    /\ Len(HandlerLines) = Cardinality({i \in DOMAIN reqs : Ran(i)})
    /\ (\A i \in DOMAIN reqs : reqs[i].pc = "done") => Len(HandlerLines) = Len(reqs)

\* C3 witness: two requests to the registered path, both served, whose lines
\* were written in the opposite order of their acceptance.
ConcurrentLinesOutOfOrder ==
  /\ Len(reqs) >= 2
  /\ \A i \in DOMAIN reqs : reqs[i].path \in RegisteredPaths /\ reqs[i].pc = "done"
  /\ Len(HandlerLines) = Len(reqs)
  /\ HandlerLines[1].req = 2

\* C4: once the bind has failed the server never serves, and the process
\* exits with the fatal status only.
FatalExitOnly ==
  /\ err = "bind" => state = "Unbound" /\ reqs = <<>>
  /\ exit # "running" => exit = "fatal"

\* C5: the server is Unbound or Serving; no request exists while Unbound;
\* the state changes only in the ListenAndServe call, from Unbound to
\* Serving; once Serving it stays Serving.
Lifecycle ==
  /\ [](state \in {"Unbound", "Serving"} /\ (state = "Unbound" => reqs = <<>>))
  /\ [][state' # state => pc = "listen" /\ state = "Unbound" /\ state' = "Serving"]_vars
  /\ [][state = "Serving" => state' = "Serving"]_vars

\* C5 witness: the process has ended its life while Serving, requests served.
ServedUntilExit ==
  /\ state = "Serving" /\ pc = "exited"
  /\ \E i \in DOMAIN reqs : reqs[i].pc = "done"

\* C6 as stated: in every state exactly one logging sink exists and every
\* handler line was written to it.
ExactlyOneSinkAlways ==
  /\ Cardinality(sinks) = 1
  /\ \A k \in DOMAIN log : log[k].req # 0 => log[k].sink \in sinks

\* C6 amended: never more than one logging sink; exactly one from the
\* statement of startup that constructs the logger on (from process start
\* for the package-level logger); the handlers' logger is that sink and
\* every handler line was written to it.
OneSinkOnceConstructed ==
  /\ Cardinality(sinks) <= 1
  /\ pc # "start" => Cardinality(sinks) = 1
  /\ logger # "nil" => sinks = {logger}
  /\ \A k \in DOMAIN log : log[k].req # 0 => log[k].sink \in sinks

\* C6 witness: two requests have logged through the constructed logger.
TwoRequestsOneSink ==
  /\ variant # "functional"
  /\ Len(HandlerLines) >= 2
  /\ HandlerLines[1].req # HandlerLines[2].req
  /\ HandlerLines[1].sink = HandlerLines[2].sink

\* C7: whatever its method, a request to the registered path reaches the
\* handler and, the handler having returned, is answered 200 with an empty
\* body; two such requests differ in nothing but their method.
AnyMethodSameResponse ==
  /\ \A i \in DOMAIN reqs :
       (reqs[i].path \in RegisteredPaths /\ reqs[i].pc # "read") =>
         /\ reqs[i].handler \in AppHandlers
         /\ reqs[i].pc = "done" =>
              reqs[i].status = 200 /\ reqs[i].body = "" /\ LinesOf(i) = 1
  /\ \A i, j \in DOMAIN reqs :
       (/\ reqs[i].path \in RegisteredPaths /\ reqs[j].path \in RegisteredPaths
        /\ reqs[i].pc = "done" /\ reqs[j].pc = "done") =>
         /\ reqs[i].handler = reqs[j].handler
         /\ reqs[i].status = reqs[j].status
         /\ reqs[i].body = reqs[j].body

\* C7 witness: served requests to the registered path with every method.
EveryMethodServed ==
  \A m \in {"POST", "CONNECT"} :
    \E i \in DOMAIN reqs :
      /\ reqs[i].method = m /\ reqs[i].path \in RegisteredPaths
      /\ reqs[i].pc = "done" /\ reqs[i].status = 200

\* C8: the route table changes only while Unbound; while Serving no step
\* changes the route table, the logger reference or the set of sinks, and
\* a step changes the log only by appending one line.
RouteTableImmutable ==
  /\ [][routes' # routes => state = "Unbound" /\ state' = "Unbound"]_vars
  /\ [][state = "Serving" =>
          /\ routes' = routes /\ logger' = logger /\ sinks' = sinks
          /\ log' # log =>
               Len(log') = Len(log) + 1 /\ SubSeq(log', 1, Len(log)) = log]_vars

\* C8 witness: while Serving, one request was answered not found and one
\* was handled, the route table still the one built at startup.
FoundAndNotFoundServed ==
  /\ state = "Serving" /\ Cardinality(routes) = 1
  /\ \E i \in DOMAIN reqs : reqs[i].pc = "done" /\ reqs[i].handler = "notfound"
  /\ \E i \in DOMAIN reqs : reqs[i].pc = "done" /\ reqs[i].handler \in AppHandlers

\* What variant v registers and logs.
PatternOf(v) ==
  IF v = "functional" THEN FunctionalPattern
  ELSE IF v = "globals" THEN GlobalsPattern ELSE OOPattern
MsgOf(v) ==
  IF v = "functional" THEN FunctionalMsg
  ELSE IF v = "globals" THEN GlobalsMsg ELSE OOMsg
HandlerOf(v) ==
  IF v = "functional" THEN "func" ELSE IF v = "globals" THEN "foo" ELSE "app.foo"
RoutesOf(v) == {[pattern |-> PatternOf(v), handler |-> HandlerOf(v)]}

\* C9: the running variant registered the path every other variant
\* registers, and each request it has routed or served was routed, logged
\* and answered as every other variant routes, logs and answers it.
VariantsEquivalent ==
  \A w \in Variants :
    /\ routes # {} => RegisteredPaths = {PatternOf(w)}
    /\ \A i \in DOMAIN reqs :
         /\ reqs[i].pc # "read" =>
              (reqs[i].handler \in AppHandlers) =
                (MuxHandler(RoutesOf(w), reqs[i].path, reqs[i].method) \in AppHandlers)
         /\ \A k \in DOMAIN log : log[k].req = i => log[k].msg = MsgOf(w)
         /\ reqs[i].pc = "done" =>
              reqs[i].status =
                LET h == MuxHandler(RoutesOf(w), reqs[i].path, reqs[i].method) IN
                IF h = "notfound" THEN 404 ELSE IF h = "redirect" THEN 301 ELSE 200

\* C10: in the globals variant the logger is set whenever the server is
\* Serving, no run of foo met a nil logger, and once set the logger is
\* never assigned again.
LoggerSetBeforeServing ==
  /\ [](variant = "globals" =>
          /\ state = "Serving" => logger # "nil"
          /\ \A i \in DOMAIN reqs :
               /\ reqs[i].pc # "panicked"
               /\ reqs[i].handler = "foo" => logger # "nil")
  /\ [][(variant = "globals" /\ logger # "nil") => logger' = logger]_vars

\* C10 witness: foo is inside logger.Println, the logger being set.
FooRunsWithLogger ==
  /\ variant = "globals" /\ logger = "web"
  /\ \E i \in DOMAIN reqs : reqs[i].handler = "foo" /\ reqs[i].pc = "locked"

====
